---------------------------- MODULE Spec2Model ----------------------------
(***************************************************************************)
(* TinyChat: peer-to-peer encrypted chat client.                           *)
(*                                                                         *)
(* State machine of the envelope protocol of src/unnamed/part_000: the    *)
(* per-peer key table, the conversation views (the DOM children of each    *)
(* conversation span), the process-wide editing/replying cursors, the      *)
(* sends waiting for their channel to open, the envelopes in flight and    *)
(* the suspended continuations of the async handlers.                      *)
(*                                                                         *)
(* Every `await` on a crypto.subtle operation is a suspension point: the   *)
(* part of a handler before it and the part after it are separate steps,   *)
(* and steps of other handlers may run in between.                         *)
(***************************************************************************)
EXTENDS Integers, Sequences, FiniteSets, Bags, TLC

(***************************************************************************)
(* Bounds of the model.                                                    *)
(***************************************************************************)
\* SpecKeys: calls of createChat(to) by the users, presses of Enter, other key presses
KeysChats == 2
KeysEnters == 1
KeysKeys == 1
\* SpecEdit: presses of Enter, clicks and double-clicks
EditEnters == 2
EditClicks == 2
\* SpecTyping: presses of Enter, other key presses
TypingEnters == 1
TypingKeys == 3
\* length of the text of an input
MaxText == 1

Peers == {"A", "B"}
Chars == {"a"}

(***************************************************************************)
(* Values.                                                                 *)
(***************************************************************************)
\* the empty string used as id of envelopes that are not addressable
EmptyId == 0
\* the value `undefined` of the cursors editing/replying and of prev
Undefined == -1
\* an absent entry of aesKeys
NoKey == [iv |-> 0, key |-> 0]
\* document.getElementById found nothing
Null == <<0, 0>>

\* the trailing marks of a node's innerHTML
DeliveredMark == "DELIVERED"
EditingMark == "EDITING"
\* new Date().toLocaleTimeString()
Now == "12:00"

Events == {"Typing", "StopTyping", "Edit", "Delivered", "RSAKeyShare", "AESKeyShare", "None"}

(***************************************************************************)
(* Bodies of envelopes.  t is the kind of value the string carries:        *)
(* "" the empty string, "pem" an exported RSA public key (data), "share"   *)
(* the JSON pair [iv, RSA-wrapped AES key] (iv, key wrapped for pub), "ct" *)
(* an AES-CBC ciphertext of data under (iv, key).                          *)
(***************************************************************************)
EmptyBody == [t |-> "", iv |-> 0, key |-> 0, pub |-> "", data |-> <<>>]

PemHeader == "-----BEGIN PUBLIC KEY-----"
PemFooter == "-----END PUBLIC KEY-----"

\* window.btoa of the spki bytes of the public key of peer p
Btoa(p) == <<p>>
\* window.atob: ASCII whitespace is ignored
Atob(s) == SelectSeq(s, LAMBDA x : x # "\n")

exportRSAKey(p) == <<PemHeader, "\n">> \o Btoa(p) \o <<"\n", PemFooter>>

\* pem.substring(header.length, pem.length - footer.length - 1), then atob:
\* the header and the footer with the line feed before it are cut off
importRSAKey(pem) ==
    LET cut == SubSeq(pem, 2, Len(pem) - 2)
        raw == Atob(cut)
    IN  IF Len(raw) = 1 THEN raw[1] ELSE ""

\* crypto.subtle.encrypt({name: 'RSA-OAEP'}, pub, raw AES key)
RsaEncrypt(pub, k) == [owner |-> pub, key |-> k]
\* crypto.subtle.decrypt({name: 'RSA-OAEP'}, private key of p, wrapped): 0 is OperationError
RsaDecrypt(p, w) == IF w.owner = p THEN w.key ELSE 0

\* mutant of AesEncrypt: the text is passed on as it is
NotEncrypted(k, text) == [t |-> "text", iv |-> 0, key |-> 0, pub |-> "", data |-> text]

\* crypto.subtle.encrypt({name: 'AES-CBC', iv}, key, text)
AesEncrypt(k, text) == [t |-> "ct", iv |-> k.iv, key |-> k.key, pub |-> "", data |-> text]

Garbled == <<"?">>
\* crypto.subtle.decrypt({name: 'AES-CBC', iv}, key, bytes): the padding check
\* fails under another key; under the right key and another iv the first block
\* comes out garbled
AesDecrypt(k, body) ==
    IF body.t # "ct" \/ body.key # k.key THEN [ok |-> FALSE, text |-> <<>>]
    ELSE IF body.iv # k.iv THEN [ok |-> TRUE, text |-> Garbled]
    ELSE [ok |-> TRUE, text |-> body.data]

(***************************************************************************)
(* Envelopes (MessageData).                                                *)
(***************************************************************************)
MessageData(from, body, time, id, event, prev) ==
    [from |-> from, body |-> body, time |-> time, id |-> id, event |-> event, prev |-> prev]

(***************************************************************************)
(* Views.  A view is the span of one conversation: its id is the peer id,  *)
(* children are its child elements in document order, sendBar is the value *)
(* of the input that follows it.  A node is a child element: className,    *)
(* id, and innerHTML as the text followed by the <small> suffixes.         *)
(***************************************************************************)
Node(cls, id, text, suffix) == [className |-> cls, id |-> id, text |-> text, suffix |-> suffix]

\* el.innerHTML = `<u>${to}</u>`
Header(to) == Node("", EmptyId, <<to>>, <<>>)

NewView(to) == [id |-> to, children |-> <<Header(to)>>, sendBar |-> <<>>]

\* el.lastChild && el.lastChild.className === 'typing'
LastIsTyping(ch) == Len(ch) > 0 /\ ch[Len(ch)].className = "typing"

\* mutant of RemoveTyping: the typing indicator stays
KeepTyping(ch) == ch

\* mutant of RemoveTyping: the last child is removed whatever it is
RemoveLastChild(ch) == IF Len(ch) > 0 THEN SubSeq(ch, 1, Len(ch) - 1) ELSE ch

\* if (lastChild is typing) el.removeChild(el.lastChild)
RemoveTyping(ch) == IF LastIsTyping(ch) THEN SubSeq(ch, 1, Len(ch) - 1) ELSE ch

\* innerHTML.endsWith(' <small><small><small><i>MARK</i></small></small></small>')
EndsWith(n, mark) == Len(n.suffix) > 0 /\ n.suffix[Len(n.suffix)] = mark

\* innerHTML.replace(/ (<small>){3}<i>FROM<\/i>(<\/small>){3}$/g, TO)
ReplaceMark(n, from, to) ==
    IF EndsWith(n, from) THEN [n EXCEPT !.suffix = SubSeq(n.suffix, 1, Len(n.suffix) - 1) \o <<to>>]
    ELSE n

\* document.getElementById(q) for a peer id: the first view of that id, 0 if none
FindView(vs, q) ==
    IF \E i \in 1..Len(vs) : vs[i].id = q
    THEN CHOOSE i \in 1..Len(vs) : vs[i].id = q /\ \A j \in 1..(i - 1) : vs[j].id # q
    ELSE 0

\* document.getElementById(id) for a message id: the first node in document
\* order with that id; the empty string and "undefined" match nothing
Refs(vs) == UNION {{<<i, j>> : j \in 1..Len(vs[i].children)} : i \in 1..Len(vs)}
Before(r, s) == r[1] < s[1] \/ (r[1] = s[1] /\ r[2] < s[2])
GetElementById(vs, id) ==
    LET hits == {r \in Refs(vs) : vs[r[1]].children[r[2]].id = id}
    IN  IF id <= EmptyId \/ hits = {} THEN Null
        ELSE CHOOSE r \in hits : \A s \in hits : s = r \/ Before(r, s)

\* createChat(to, false) of the data handler when the view is missing
EnsureView(vs, q) == IF FindView(vs, q) = 0 THEN Append(vs, NewView(q)) ELSE vs

(***************************************************************************)
(* State.                                                                  *)
(***************************************************************************)
VARIABLES
    views,      \* views[p]: the conversation spans of the document of p, in document order
    aesKeys,    \* aesKeys[p][q]: the (iv, key) p holds for q, NoKey if none
    editing,    \* editing[p]: the process-wide editing cursor of p
    replying,   \* replying[p]: the process-wide replying cursor of p
    outbox,     \* bag of sends whose channel (one per send) has not opened yet
    net,        \* bag of envelopes transmitted and not yet handed to a data handler
    tasks,      \* bag of suspended continuations of async handlers
    nextId,     \* the next value of crypto.randomUUID()
    nextKey,    \* the next value of getRandomValues / generateKey
    budget,     \* user actions left, by kind
    committed,  \* history: committed[id] is what Enter sent last under message id `id`
    acked,      \* history: acked[p] is the bag of ids of the Delivered envelopes p has handled
    overlap,    \* history: a key exchange was started while another one was under way
    outcome     \* how the last step ended: Ok, an exception, or an early return

vars == <<views, aesKeys, editing, replying, outbox, net, tasks, nextId, nextKey, budget, committed, acked, overlap, outcome>>

Others(p) == Peers \ {p}

BagAdd(b, e) == b (+) SetToBag({e})
BagDel(b, e) == b (-) SetToBag({e})

Ok == [op |-> "", peer |-> "", id |-> EmptyId, name |-> ""]
\* the step `op` of peer p on message id `id` threw the exception `name`
Raise(op, p, id, name) == [op |-> op, peer |-> p, id |-> id, name |-> name]
\* the step `op` of peer p found nothing to do
Skip(op, p, id) == [op |-> op, peer |-> p, id |-> id, name |-> "return"]

\* mutant of Task: the continuation takes the handling peer for the other one
TaskForSelf(kind, p, to, msg, key, ref, el, text) ==
    [kind |-> kind, peer |-> p, to |-> p, msg |-> msg, key |-> key, ref |-> ref, el |-> el, text |-> text]

\* a suspended continuation: what it has read before its await
Task(kind, p, to, msg, key, ref, el, text) ==
    [kind |-> kind, peer |-> p, to |-> to, msg |-> msg, key |-> key, ref |-> ref, el |-> el, text |-> text]

TasksOf(p, kind) == {t \in BagToSet(tasks) : t.peer = p /\ t.kind = kind}

\* mutant of Send: two connections are opened for one envelope
SendTwice(box, p, to, msg) ==
    BagAdd(BagAdd(box, [peer |-> p, to |-> to, msg |-> msg]), [peer |-> p, to |-> to, msg |-> msg])

\* send(to, messageData): peer.connect(to) and wait for the channel to open
Send(box, p, to, msg) == BagAdd(box, [peer |-> p, to |-> to, msg |-> msg])

\* mutant of Delivered: the acknowledgement does not name the message
DeliveredWithoutId(p, id) == MessageData(p, EmptyBody, "", EmptyId, "Delivered", Undefined)

\* the Delivered reply: empty body and time, the id of the envelope handled
Delivered(p, id) == MessageData(p, EmptyBody, "", id, "Delivered", Undefined)

Start(b) ==
    /\ views = [p \in Peers |-> <<>>]
    /\ aesKeys = [p \in Peers |-> [q \in Peers |-> NoKey]]
    /\ editing = [p \in Peers |-> Undefined]
    /\ replying = [p \in Peers |-> Undefined]
    /\ outbox = EmptyBag
    /\ net = EmptyBag
    /\ tasks = EmptyBag
    /\ nextId = 1
    /\ nextKey = 1
    /\ budget = b
    /\ committed = <<>>
    /\ acked = [p \in Peers |-> EmptyBag]
    /\ overlap = FALSE
    /\ outcome = Ok

KeyShareEvents == {"RSAKeyShare", "AESKeyShare"}

\* a key-share envelope is waiting for its channel, in flight or being handled
KeyShareUnderWay ==
    \/ \E o \in BagToSet(outbox) : o.msg.event \in KeyShareEvents
    \/ \E n \in BagToSet(net) : n.msg.event \in KeyShareEvents
    \/ \E t \in BagToSet(tasks) : t.msg.event \in KeyShareEvents

(***************************************************************************)
(* User actions.                                                           *)
(***************************************************************************)
\* createChat(to) called by the user: a new span is appended to the document
\* and the RSA public key is sent (establishKey = true)
CreateChat(p, q) ==
    /\ budget.chats > 0
    /\ budget' = [budget EXCEPT !.chats = @ - 1]
    /\ views' = [views EXCEPT ![p] = Append(@, NewView(q))]
    /\ outbox' = Send(outbox, p, q,
            MessageData(p, [EmptyBody EXCEPT !.t = "pem", !.data = exportRSAKey(p)],
                        "", EmptyId, "RSAKeyShare", Undefined))
    /\ overlap' = (overlap \/ KeyShareUnderWay)
    /\ outcome' = Ok
    /\ UNCHANGED <<aesKeys, editing, replying, net, tasks, nextId, nextKey, committed, acked>>

\* the input the user types in: the one after the span getElementById(q) finds
Inputs(p) == {i \in 1..Len(views[p]) : i = FindView(views[p], views[p][i].id)}

\* sendBar.onkeydown with a character key: Typing is sent when the value is
\* empty, then the character is added to the value
KeyDownChar(p, i, c) ==
    LET v == views[p][i] IN
    /\ budget.keys > 0
    /\ Len(v.sendBar) < MaxText
    /\ budget' = [budget EXCEPT !.keys = @ - 1]
    /\ outbox' = IF Len(v.sendBar) = 0
                 THEN Send(outbox, p, v.id, MessageData(p, EmptyBody, "", EmptyId, "Typing", Undefined))
                 ELSE outbox
    /\ views' = [views EXCEPT ![p][i].sendBar = Append(@, c)]
    /\ outcome' = Ok
    /\ UNCHANGED <<aesKeys, editing, replying, net, tasks, nextId, nextKey, committed, acked, overlap>>

\* sendBar.onkeydown with Backspace: StopTyping is sent when one character is
\* left, then the character is removed
KeyDownBackspace(p, i) ==
    LET v == views[p][i] IN
    /\ budget.keys > 0
    /\ Len(v.sendBar) >= 1
    /\ budget' = [budget EXCEPT !.keys = @ - 1]
    /\ outbox' = IF Len(v.sendBar) = 1
                 THEN Send(outbox, p, v.id, MessageData(p, EmptyBody, "", EmptyId, "StopTyping", Undefined))
                 ELSE outbox
    /\ views' = [views EXCEPT ![p][i].sendBar = SubSeq(@, 1, Len(@) - 1)]
    /\ outcome' = Ok
    /\ UNCHANGED <<aesKeys, editing, replying, net, tasks, nextId, nextKey, committed, acked, overlap>>

\* sendBar.onkeydown with Enter, up to the await of crypto.subtle.encrypt:
\* aesKeys[to] and the value are read
KeyDownEnter(p, i) ==
    LET v == views[p][i]
        k == aesKeys[p][v.id] IN
    /\ budget.enters > 0
    /\ budget' = [budget EXCEPT !.enters = @ - 1]
    /\ IF k = NoKey
       THEN /\ outcome' = Raise("keyDownEnter", p, EmptyId, "TypeError")
            /\ UNCHANGED tasks
       ELSE /\ tasks' = BagAdd(tasks, Task("enter", p, v.id, Delivered(p, EmptyId), k, Null, i, v.sendBar))
            /\ outcome' = Ok
    /\ UNCHANGED <<views, aesKeys, editing, replying, outbox, net, nextId, nextKey, committed, acked, overlap>>

EditTime == "edited at " \o Now

\* history record of one Enter: who sent, as which event, which text and time,
\* how many envelopes were sent under the id so far, and whether the node of
\* the id carried the editing mark when the envelope was built
Commit(p, ev, text, time, n, marked) ==
    [by |-> p, event |-> ev, text |-> text, time |-> time, n |-> n, marked |-> marked]

\* sendBar.onkeydown with Enter, after the await: the ciphertext is sent as an
\* Edit of `editing` or as a new message, the value and replying are reset
EnterEncrypted(p, t) ==
    LET to == t.to
        body == AesEncrypt(t.key, t.text) IN
    /\ tasks' = BagDel(tasks, t)
    /\ IF editing[p] # Undefined
       THEN /\ outbox' = Send(outbox, p, to, MessageData(p, body, EditTime, editing[p], "Edit", replying[p]))
            /\ committed' = [committed EXCEPT ![editing[p]] = Commit(p, "Edit", t.text, EditTime, @.n + 1,
                        LET r == GetElementById(views[p], editing[p]) IN
                        r # Null /\ EndsWith(views[p][r[1]].children[r[2]], EditingMark))]
            /\ UNCHANGED nextId
       ELSE /\ outbox' = Send(outbox, p, to, MessageData(p, body, Now, nextId, "None", replying[p]))
            /\ committed' = Append(committed, Commit(p, "None", t.text, Now, 1, FALSE))
            /\ nextId' = nextId + 1
    /\ views' = [views EXCEPT ![p][t.el].sendBar = <<>>]
    /\ replying' = [replying EXCEPT ![p] = Undefined]
    /\ outcome' = Ok
    /\ UNCHANGED <<aesKeys, editing, net, nextKey, budget, acked, overlap>>

\* the nodes with click handlers: the paragraphs built by send
SentRefs(p) == {r \in Refs(views[p]) : views[p][r[1]].children[r[2]].className = "sent"}

\* paragraph.onclick
Click(p, r) ==
    /\ budget.clicks > 0
    /\ budget' = [budget EXCEPT !.clicks = @ - 1]
    /\ replying' = [replying EXCEPT ![p] = views[p][r[1]].children[r[2]].id]
    /\ outcome' = Ok
    /\ UNCHANGED <<views, aesKeys, editing, outbox, net, tasks, nextId, nextKey, committed, acked, overlap>>

\* if (editing) prev.innerHTML = prev.innerHTML.replace(editing mark, delivered mark)
ResetPrev(vs, ed) ==
    LET prev == GetElementById(vs, ed) IN
    IF ed = Undefined \/ prev = Null THEN vs
    ELSE [vs EXCEPT ![prev[1]].children[prev[2]] = ReplaceMark(@, EditingMark, DeliveredMark)]

\* paragraph.ondblclick
DblClick(p, r) ==
    LET vs == ResetPrev(views[p], editing[p])
        n == vs[r[1]].children[r[2]] IN
    /\ budget.clicks > 0
    /\ budget' = [budget EXCEPT !.clicks = @ - 1]
    /\ replying' = [replying EXCEPT ![p] = Undefined]
    /\ editing' = [editing EXCEPT ![p] = n.id]
    /\ IF EndsWith(n, DeliveredMark)
       THEN /\ views' = [views EXCEPT ![p] =
                    [vs EXCEPT ![r[1]].children[r[2]] = ReplaceMark(n, DeliveredMark, EditingMark),
                               ![r[1]].sendBar = n.text]]
            /\ outcome' = Ok
       ELSE /\ views' = [views EXCEPT ![p] = vs]
            /\ outcome' = Raise("dblClick", p, n.id, "Error")
    /\ UNCHANGED <<aesKeys, outbox, net, tasks, nextId, nextKey, committed, acked, overlap>>

(***************************************************************************)
(* send: the 'open' callback of the connection of one send.                *)
(***************************************************************************)
Opens(p, evs) == {o \in BagToSet(outbox) : o.peer = p /\ o.msg.event \in evs}

\* conn.send(data)
Transmit(o) == BagAdd(net, [to |-> o.to, msg |-> o.msg])

\* replying = undefined; editing = undefined
ClearCursors(p) ==
    /\ replying' = [replying EXCEPT ![p] = Undefined]
    /\ editing' = [editing EXCEPT ![p] = Undefined]

\* mutant of InsertSent: the paragraph is always appended
AppendSent(ch, n) == Append(ch, n)

\* el.insertBefore(paragraph, el.lastChild) before a trailing typing
\* indicator, el.insertAdjacentElement('beforeend', paragraph) otherwise
InsertSent(ch, n) ==
    IF LastIsTyping(ch) THEN SubSeq(ch, 1, Len(ch) - 1) \o <<n, ch[Len(ch)]>>
    ELSE Append(ch, n)

\* RSAKeyShare, AESKeyShare, Typing, StopTyping: no local echo
OpenSilent(p, o) ==
    /\ outbox' = BagDel(outbox, o)
    /\ net' = Transmit(o)
    /\ ClearCursors(p)
    /\ outcome' = Ok
    /\ UNCHANGED <<views, aesKeys, tasks, nextId, nextKey, budget, committed, acked, overlap>>

\* Delivered: the default case without decryption; the paragraph holds the
\* (empty) body and time of the envelope
OpenDelivered(p, o) ==
    LET el == FindView(views[p], o.to) IN
    /\ outbox' = BagDel(outbox, o)
    /\ net' = Transmit(o)
    /\ IF el = 0
       THEN /\ outcome' = Raise("openDelivered", p, o.msg.id, "TypeError")
            /\ UNCHANGED <<views, editing, replying>>
       ELSE /\ views' = [views EXCEPT ![p][el].children =
                    InsertSent(@, Node("sent", o.msg.id, o.msg.body.data, <<o.msg.time>>))]
            /\ ClearCursors(p)
            /\ outcome' = Ok
    /\ UNCHANGED <<aesKeys, tasks, nextId, nextKey, budget, committed, acked, overlap>>

\* Edit and plain messages, up to the await of crypto.subtle.decrypt: the
\* element of the global `editing` (Edit only) and aesKeys[to] are read
OpenEcho(p, o) ==
    LET k == aesKeys[p][o.to]
        kind == IF o.msg.event = "Edit" THEN "echoEdit" ELSE "echoPlain"
        ref == IF o.msg.event = "Edit" THEN GetElementById(views[p], editing[p]) ELSE Null IN
    /\ outbox' = BagDel(outbox, o)
    /\ net' = Transmit(o)
    /\ IF k = NoKey
       THEN /\ outcome' = Raise("open" \o o.msg.event, p, o.msg.id, "TypeError")
            /\ UNCHANGED tasks
       ELSE /\ tasks' = BagAdd(tasks, Task(kind, p, o.to, o.msg, k, ref, 0, <<>>))
            /\ outcome' = Ok
    /\ UNCHANGED <<views, aesKeys, editing, replying, nextId, nextKey, budget, committed, acked, overlap>>

\* Edit after the await: the innerHTML of the element read before the await
\* becomes the decrypted text and the time suffix
EchoEdit(p, t) ==
    LET d == AesDecrypt(t.key, t.msg.body) IN
    /\ tasks' = BagDel(tasks, t)
    /\ IF ~d.ok
       THEN /\ outcome' = Raise("echoEdit", p, t.msg.id, "OperationError")
            /\ UNCHANGED <<views, editing, replying>>
       ELSE IF t.ref = Null
       THEN /\ outcome' = Raise("echoEdit", p, t.msg.id, "TypeError")
            /\ UNCHANGED <<views, editing, replying>>
       ELSE /\ views' = [views EXCEPT ![p][t.ref[1]].children[t.ref[2]] =
                    [@ EXCEPT !.text = d.text, !.suffix = <<t.msg.time>>]]
            /\ ClearCursors(p)
            /\ outcome' = Ok
    /\ UNCHANGED <<aesKeys, outbox, net, nextId, nextKey, budget, committed, acked, overlap>>

\* plain message after the await: a paragraph of class sent with the
\* decrypted text and the time suffix is inserted into getElementById(to)
EchoPlain(p, t) ==
    LET d == AesDecrypt(t.key, t.msg.body)
        el == FindView(views[p], t.to) IN
    /\ tasks' = BagDel(tasks, t)
    /\ IF ~d.ok
       THEN /\ outcome' = Raise("echoPlain", p, t.msg.id, "OperationError")
            /\ UNCHANGED <<views, editing, replying>>
       ELSE IF el = 0
       THEN /\ outcome' = Raise("echoPlain", p, t.msg.id, "TypeError")
            /\ UNCHANGED <<views, editing, replying>>
       ELSE /\ views' = [views EXCEPT ![p][el].children =
                    InsertSent(@, Node("sent", t.msg.id, d.text, <<t.msg.time>>))]
            /\ ClearCursors(p)
            /\ outcome' = Ok
    /\ UNCHANGED <<aesKeys, outbox, net, nextId, nextKey, budget, committed, acked, overlap>>

(***************************************************************************)
(* peer.on('connection'): the 'data' handler, by event of the envelope.    *)
(***************************************************************************)
Arrivals(p, ev) == {n \in BagToSet(net) : n.to = p /\ n.msg.event = ev}

\* RSAKeyShare, up to the await of generateKey: the iv is drawn
RecvRSAKeyShare(p, n) ==
    LET m == n.msg IN
    /\ net' = BagDel(net, n)
    /\ views' = [views EXCEPT ![p] = EnsureView(@, m.from)]
    /\ tasks' = BagAdd(tasks, Task("rsaGenerate", p, m.from, m, [iv |-> nextKey, key |-> nextKey], Null, 0, <<>>))
    /\ nextKey' = nextKey + 1
    /\ outcome' = Ok
    /\ UNCHANGED <<aesKeys, editing, replying, outbox, nextId, budget, committed, acked, overlap>>

\* generateKey resolved: aesKeys[from] is assigned, its iv is read for the
\* body of the reply, importRSAKey is awaited
RsaGenerated(p, t) ==
    /\ tasks' = BagAdd(BagDel(tasks, t), [t EXCEPT !.kind = "rsaImport"])
    /\ aesKeys' = [aesKeys EXCEPT ![p][t.to] = t.key]
    /\ outcome' = Ok
    /\ UNCHANGED <<views, editing, replying, outbox, net, nextId, nextKey, budget, committed, acked, overlap>>

\* importRSAKey resolved: aesKeys[from][1] is read for exportKey
RsaImported(p, t) ==
    LET pub == importRSAKey(t.msg.body.data) IN
    /\ IF pub = ""
       THEN /\ tasks' = BagDel(tasks, t)
            /\ outcome' = Raise("rsaImported", p, t.msg.id, "DataError")
       ELSE /\ tasks' = BagAdd(BagDel(tasks, t),
                    [t EXCEPT !.kind = "rsaEncrypt", !.key.key = aesKeys[p][t.to].key, !.text = <<pub>>])
            /\ outcome' = Ok
    /\ UNCHANGED <<views, aesKeys, editing, replying, outbox, net, nextId, nextKey, budget, committed, acked, overlap>>

\* exportKey and encrypt resolved: the AESKeyShare is sent
RsaEncrypted(p, t) ==
    LET w == RsaEncrypt(t.text[1], t.key.key) IN
    /\ tasks' = BagDel(tasks, t)
    /\ outbox' = Send(outbox, p, t.to,
            MessageData(p, [EmptyBody EXCEPT !.t = "share", !.iv = t.key.iv, !.key = w.key, !.pub = w.owner],
                        "", EmptyId, "AESKeyShare", Undefined))
    /\ outcome' = Ok
    /\ UNCHANGED <<views, aesKeys, editing, replying, net, nextId, nextKey, budget, committed, acked, overlap>>

\* AESKeyShare, up to the awaits of decrypt and importKey
RecvAESKeyShare(p, n) ==
    LET m == n.msg IN
    /\ net' = BagDel(net, n)
    /\ views' = [views EXCEPT ![p] = EnsureView(@, m.from)]
    /\ tasks' = BagAdd(tasks, Task("aesImport", p, m.from, m, NoKey, Null, 0, <<>>))
    /\ outcome' = Ok
    /\ UNCHANGED <<aesKeys, editing, replying, outbox, nextId, nextKey, budget, committed, acked, overlap>>

\* mutant of SharedKey: the iv of the envelope is dropped
SharedKeyWithoutIv(p, b) == [iv |-> 0, key |-> RsaDecrypt(p, [owner |-> b.pub, key |-> b.key])]

\* [new Uint8Array(parsed[0]), importKey('raw', decrypt(private key, parsed[1]))]
SharedKey(p, b) == [iv |-> b.iv, key |-> RsaDecrypt(p, [owner |-> b.pub, key |-> b.key])]

\* decrypt and importKey resolved: aesKeys[from] is assigned
AesImported(p, t) ==
    LET k == SharedKey(p, t.msg.body) IN
    /\ tasks' = BagDel(tasks, t)
    /\ IF k.key = 0
       THEN /\ outcome' = Raise("aesImported", p, t.msg.id, "OperationError")
            /\ UNCHANGED aesKeys
       ELSE /\ aesKeys' = [aesKeys EXCEPT ![p][t.to] = k]
            /\ outcome' = Ok
    /\ UNCHANGED <<views, editing, replying, outbox, net, nextId, nextKey, budget, committed, acked, overlap>>

\* mutant of ShowTyping: an indicator is appended whatever the last child is
AlwaysShowTyping(ch, id) == Append(ch, Node("typing", id, <<"Typing...">>, <<>>))

\* Typing: nothing if the last child is a typing indicator, otherwise a
\* paragraph of class typing with the id of the envelope is appended
ShowTyping(ch, id) ==
    IF LastIsTyping(ch) THEN ch ELSE Append(ch, Node("typing", id, <<"Typing...">>, <<>>))

RecvTyping(p, n) ==
    LET m == n.msg
        vs == EnsureView(views[p], m.from)
        el == FindView(vs, m.from) IN
    /\ net' = BagDel(net, n)
    /\ views' = [views EXCEPT ![p] = [vs EXCEPT ![el].children = ShowTyping(@, m.id)]]
    /\ outcome' = IF LastIsTyping(vs[el].children) THEN Skip("recvTyping", p, m.id) ELSE Ok
    /\ UNCHANGED <<aesKeys, editing, replying, outbox, tasks, nextId, nextKey, budget, committed, acked, overlap>>

\* StopTyping
RecvStopTyping(p, n) ==
    LET m == n.msg
        vs == EnsureView(views[p], m.from)
        el == FindView(vs, m.from) IN
    /\ net' = BagDel(net, n)
    /\ views' = [views EXCEPT ![p] = [vs EXCEPT ![el].children = RemoveTyping(@)]]
    /\ outcome' = IF LastIsTyping(vs[el].children) THEN Ok ELSE Skip("recvStopTyping", p, m.id)
    /\ UNCHANGED <<aesKeys, editing, replying, outbox, tasks, nextId, nextKey, budget, committed, acked, overlap>>

\* mutant of LastUnmarked: the search runs from the first child
FirstUnmarked(ch, id) ==
    LET hits == {i \in 1..Len(ch) : ch[i].id = id /\ ~EndsWith(ch[i], DeliveredMark)}
    IN  IF hits = {} THEN 0 ELSE CHOOSE i \in hits : \A j \in hits : i <= j

\* for (i = el.children.length - 1; i >= 0; i--) if (id matches and no
\* delivered mark at the end) break;    -- 0 stands for the index -1
LastUnmarked(ch, id) ==
    LET hits == {i \in 1..Len(ch) : ch[i].id = id /\ ~EndsWith(ch[i], DeliveredMark)}
    IN  IF hits = {} THEN 0 ELSE CHOOSE i \in hits : \A j \in hits : j <= i

\* Delivered: el.children[i].innerHTML += delivered mark
RecvDelivered(p, n) ==
    LET m == n.msg
        vs == EnsureView(views[p], m.from)
        el == FindView(vs, m.from)
        i == LastUnmarked(vs[el].children, m.id) IN
    /\ net' = BagDel(net, n)
    /\ IF i = 0
       THEN /\ views' = [views EXCEPT ![p] = vs]
            /\ outcome' = Raise("recvDelivered", p, m.id, "TypeError")
       ELSE /\ views' = [views EXCEPT ![p] =
                    [vs EXCEPT ![el].children[i].suffix = Append(@, DeliveredMark)]]
            /\ outcome' = Ok
    /\ acked' = [acked EXCEPT ![p] = BagAdd(@, m.id)]
    /\ UNCHANGED <<aesKeys, editing, replying, outbox, tasks, nextId, nextKey, budget, committed, overlap>>

\* Edit and plain messages, up to the await of crypto.subtle.decrypt: the
\* target element (Edit only) and aesKeys[from] are read
RecvEncrypted(p, n) ==
    LET m == n.msg
        vs == EnsureView(views[p], m.from)
        el == FindView(vs, m.from)
        k == aesKeys[p][m.from]
        kind == IF m.event = "Edit" THEN "edit" ELSE "plain"
        ref == IF m.event = "Edit" THEN GetElementById(vs, m.id) ELSE Null IN
    /\ net' = BagDel(net, n)
    /\ views' = [views EXCEPT ![p] = vs]
    /\ IF k = NoKey
       THEN /\ outcome' = Raise("recv" \o m.event, p, m.id, "TypeError")
            /\ UNCHANGED tasks
       ELSE /\ tasks' = BagAdd(tasks, Task(kind, p, m.from, m, k, ref, el, <<>>))
            /\ outcome' = Ok
    /\ UNCHANGED <<aesKeys, editing, replying, outbox, nextId, nextKey, budget, committed, acked, overlap>>

\* Edit after the await: the target's innerHTML is replaced, a trailing
\* typing indicator is removed and Delivered is sent
EditDecrypted(p, t) ==
    LET d == AesDecrypt(t.key, t.msg.body)
        vs == [views[p] EXCEPT ![t.ref[1]].children[t.ref[2]] =
                    [@ EXCEPT !.text = d.text, !.suffix = <<t.msg.time>>]] IN
    /\ tasks' = BagDel(tasks, t)
    /\ IF ~d.ok
       THEN /\ outcome' = Raise("editDecrypted", p, t.msg.id, "OperationError")
            /\ UNCHANGED <<views, outbox>>
       ELSE IF t.ref = Null
       THEN /\ outcome' = Raise("editDecrypted", p, t.msg.id, "TypeError")
            /\ UNCHANGED <<views, outbox>>
       ELSE /\ views' = [views EXCEPT ![p] = [vs EXCEPT ![t.el].children = RemoveTyping(@)]]
            /\ outbox' = Send(outbox, p, t.to, Delivered(p, t.msg.id))
            /\ outcome' = Ok
    /\ UNCHANGED <<aesKeys, editing, replying, net, nextId, nextKey, budget, committed, acked, overlap>>

\* plain message after the await: a trailing typing indicator is removed,
\* Delivered is sent and the paragraph of class received is appended
PlainDecrypted(p, t) ==
    LET d == AesDecrypt(t.key, t.msg.body) IN
    /\ tasks' = BagDel(tasks, t)
    /\ IF ~d.ok
       THEN /\ outcome' = Raise("plainDecrypted", p, t.msg.id, "OperationError")
            /\ UNCHANGED <<views, outbox>>
       ELSE /\ views' = [views EXCEPT ![p][t.el].children =
                    Append(RemoveTyping(@), Node("received", t.msg.id, d.text, <<t.msg.time>>))]
            /\ outbox' = Send(outbox, p, t.to, Delivered(p, t.msg.id))
            /\ outcome' = Ok
    /\ UNCHANGED <<aesKeys, editing, replying, net, nextId, nextKey, budget, committed, acked, overlap>>

(***************************************************************************)
(* Specifications.  The handlers are the same in all of them; they differ  *)
(* in what the users do: SpecKeys has users who start conversations, type  *)
(* one character and send one message; SpecEdit has users who send, click  *)
(* and double-click messages; SpecTyping has users who type and delete.    *)
(***************************************************************************)
Budget(chats, enters, keys, clicks) ==
    [chats |-> chats, enters |-> enters, keys |-> keys, clicks |-> clicks]

UserCreateChat == \E p \in Peers : \E q \in Others(p) : CreateChat(p, q)
UserKeyDownChar == \E p \in Peers : \E i \in Inputs(p) : \E c \in Chars : KeyDownChar(p, i, c)
UserKeyDownBackspace == \E p \in Peers : \E i \in Inputs(p) : KeyDownBackspace(p, i)
UserKeyDownEnter == \E p \in Peers : \E i \in Inputs(p) : KeyDownEnter(p, i)
UserClick == \E p \in Peers : \E r \in SentRefs(p) : Click(p, r)
UserDblClick == \E p \in Peers : \E r \in SentRefs(p) : DblClick(p, r)

DoEnterEncrypted == \E p \in Peers : \E t \in TasksOf(p, "enter") : EnterEncrypted(p, t)
DoOpenSilent == \E p \in Peers : \E o \in Opens(p, {"RSAKeyShare", "AESKeyShare", "Typing", "StopTyping"}) : OpenSilent(p, o)
DoOpenDelivered == \E p \in Peers : \E o \in Opens(p, {"Delivered"}) : OpenDelivered(p, o)
DoOpenEcho == \E p \in Peers : \E o \in Opens(p, {"Edit", "None"}) : OpenEcho(p, o)
DoEchoEdit == \E p \in Peers : \E t \in TasksOf(p, "echoEdit") : EchoEdit(p, t)
DoEchoPlain == \E p \in Peers : \E t \in TasksOf(p, "echoPlain") : EchoPlain(p, t)
DoRecvRSAKeyShare == \E p \in Peers : \E n \in Arrivals(p, "RSAKeyShare") : RecvRSAKeyShare(p, n)
DoRsaGenerated == \E p \in Peers : \E t \in TasksOf(p, "rsaGenerate") : RsaGenerated(p, t)
DoRsaImported == \E p \in Peers : \E t \in TasksOf(p, "rsaImport") : RsaImported(p, t)
DoRsaEncrypted == \E p \in Peers : \E t \in TasksOf(p, "rsaEncrypt") : RsaEncrypted(p, t)
DoRecvAESKeyShare == \E p \in Peers : \E n \in Arrivals(p, "AESKeyShare") : RecvAESKeyShare(p, n)
DoAesImported == \E p \in Peers : \E t \in TasksOf(p, "aesImport") : AesImported(p, t)
DoRecvTyping == \E p \in Peers : \E n \in Arrivals(p, "Typing") : RecvTyping(p, n)
DoRecvStopTyping == \E p \in Peers : \E n \in Arrivals(p, "StopTyping") : RecvStopTyping(p, n)
DoRecvDelivered == \E p \in Peers : \E n \in Arrivals(p, "Delivered") : RecvDelivered(p, n)
DoRecvEncrypted == \E p \in Peers : \E n \in Arrivals(p, "Edit") \cup Arrivals(p, "None") : RecvEncrypted(p, n)
DoEditDecrypted == \E p \in Peers : \E t \in TasksOf(p, "edit") : EditDecrypted(p, t)
DoPlainDecrypted == \E p \in Peers : \E t \in TasksOf(p, "plain") : PlainDecrypted(p, t)

\* the key exchange and the plain messages
Exchange ==
    \/ DoOpenSilent \/ DoRecvRSAKeyShare \/ DoRsaGenerated \/ DoRsaImported \/ DoRsaEncrypted
    \/ DoRecvAESKeyShare \/ DoAesImported
    \/ DoEnterEncrypted \/ DoOpenEcho \/ DoEchoPlain \/ DoRecvEncrypted \/ DoPlainDecrypted
    \/ DoOpenDelivered \/ DoRecvDelivered

NextKeys == UserCreateChat \/ UserKeyDownChar \/ UserKeyDownEnter \/ Exchange \/ DoRecvTyping

NextEdit ==
    \/ UserCreateChat \/ UserKeyDownEnter \/ UserClick \/ UserDblClick
    \/ Exchange \/ DoEchoEdit \/ DoEditDecrypted

NextTyping ==
    \/ UserCreateChat \/ UserKeyDownChar \/ UserKeyDownBackspace \/ UserKeyDownEnter
    \/ Exchange \/ DoRecvTyping \/ DoRecvStopTyping

InitKeys == Start(Budget(KeysChats, KeysEnters, KeysKeys, 0))
InitEdit == Start(Budget(1, EditEnters, 0, EditClicks))
InitTyping == Start(Budget(1, TypingEnters, TypingKeys, 0))

SpecKeys == InitKeys /\ [][NextKeys]_vars
SpecEdit == InitEdit /\ [][NextEdit]_vars
SpecTyping == InitTyping /\ [][NextTyping]_vars

(***************************************************************************)
(* Claims.                                                                 *)
(***************************************************************************)
Texts == UNION {[1..n -> Chars] : n \in 0..MaxText}

HoldsKey(p, q) == aesKeys[p][q] # NoKey

\* C1: when the key exchanges between two peers ran one at a time (each
\* RSAKeyShare answered by an AESKeyShare that the initiator handled before
\* the next exchange began) and none is under way, the two peers hold the
\* same (iv, key) pair for each other, and a text encrypted by either is
\* decrypted by the other to the same text.
C1_SingleInitiatorKeysAgree ==
    \A a \in Peers : \A b \in Others(a) :
        (~overlap /\ ~KeyShareUnderWay /\ HoldsKey(a, b) /\ HoldsKey(b, a)) =>
            /\ aesKeys[a][b] = aesKeys[b][a]
            /\ \A x \in Texts :
                AesDecrypt(aesKeys[b][a], AesEncrypt(aesKeys[a][b], x)) = [ok |-> TRUE, text |-> x]

\* C1 witness: an exchange has completed on both sides
C1_Witness ==
    /\ ~overlap /\ ~KeyShareUnderWay
    /\ HoldsKey("A", "B") /\ HoldsKey("B", "A")
    /\ budget.chats = KeysChats - 1


\* the children of a view without a typing indicator at the end
WithoutTrailingTyping(ch) ==
    IF Len(ch) > 0 /\ ch[Len(ch)].className = "typing" THEN SubSeq(ch, 1, Len(ch) - 1) ELSE ch

InOutbox(p, to, msg) == BagIn([peer |-> p, to |-> to, msg |-> msg], outbox)

DeliveredEnvelope(p, id) ==
    [from |-> p, body |-> EmptyBody, time |-> "", id |-> id, event |-> "Delivered", prev |-> Undefined]

\* the body is a ciphertext under the (iv, key) pair k
EncryptedUnder(body, k) == body.t = "ct" /\ body.iv = k.iv /\ body.key = k.key

\* what the claim C2 says the handling of the plain message of task t does
C2_Effect(p, t) ==
    LET before == views[p][t.el].children
        after == views'[p][t.el].children
        kept == WithoutTrailingTyping(before) IN
    /\ outcome' = Ok
    /\ after = Append(kept, [className |-> "received", id |-> t.msg.id,
                             text |-> t.msg.body.data, suffix |-> <<t.msg.time>>])
    /\ \A i \in 1..Len(views[p]) : i # t.el => views'[p][i] = views[p][i]
    /\ outbox' = outbox (+) SetToBag({[peer |-> p, to |-> t.msg.from, msg |-> DeliveredEnvelope(p, t.msg.id)]})

C4_NoKeyNoError ==
    [][\A p \in Peers : \A n \in Arrivals(p, "Edit") \cup Arrivals(p, "None") :
            (RecvEncrypted(p, n) /\ ~HoldsKey(p, n.msg.from)) =>
                (outcome' = Ok /\ views' = views /\ outbox' = outbox /\ tasks' = tasks)]_vars

\* what the claim C10 says the local echo of the plain message of task t does
C10_Effect(p, t) ==
    LET el == FindView(views[p], t.to)
        before == views[p][el].children
        after == views'[p][el].children
        node == [className |-> "sent", id |-> t.msg.id, text |-> t.msg.body.data, suffix |-> <<t.msg.time>>] IN
    /\ outcome' = Ok
    /\ el # 0
    /\ after = IF before[Len(before)].className = "typing"
               THEN SubSeq(before, 1, Len(before) - 1) \o <<node, before[Len(before)]>>
               ELSE before \o <<node>>
    /\ Cardinality({i \in 1..Len(after) : after[i].id = t.msg.id /\ after[i].className = "sent"}) = 1
    /\ \A i \in 1..Len(views[p]) : i # el => views'[p][i] = views[p][i]

Child(p, r) == views[p][r[1]].children[r[2]]

\* the innerHTML of the node ends with the given mark
HasTrailing(n, mark) == Len(n.suffix) > 0 /\ n.suffix[Len(n.suffix)] = mark

\* no node of the view of p for the sender of n has the id of n and lacks a
\* trailing delivered mark
C3_NoMatch(p, n) ==
    LET el == FindView(views[p], n.msg.from) IN
    /\ el # 0
    /\ \A i \in 1..Len(views[p][el].children) :
            LET c == views[p][el].children[i] IN
            c.id = n.msg.id => HasTrailing(c, DeliveredMark)

\* C3: a Delivered envelope whose id matches no node of the sender's view
\* without a delivered mark fails silently: no error is raised, and the views,
\* the key table and the cursors are unchanged.
C3_DeliveredNoMatchSilent ==
    [][\A p \in Peers : \A n \in Arrivals(p, "Delivered") :
            (RecvDelivered(p, n) /\ C3_NoMatch(p, n)) =>
                /\ outcome' = Ok
                /\ views' = views /\ aesKeys' = aesKeys
                /\ editing' = editing /\ replying' = replying]_vars

\* C5: a double-click on a sent node without a delivered mark fails with an
\* error and leaves the cursors and every node of every view as they were.
C5_FailedDblClickNoEffect ==
    [][\A p \in Peers : \A r \in SentRefs(p) :
            (DblClick(p, r) /\ ~HasTrailing(Child(p, r), DeliveredMark)
                            /\ ~HasTrailing(Child(p, r), EditingMark)) =>
                /\ outcome'.name = "Error"
                /\ editing' = editing /\ replying' = replying
                /\ views' = views]_vars

\* the node is the echo of a plain message p sent itself, never edited and
\* never put into an edit session
C6_OwnPlain(p, n) ==
    /\ n.className = "sent"
    /\ n.id \in 1..Len(committed)
    /\ committed[n.id].by = p /\ committed[n.id].event = "None"
    /\ \A i \in 1..Len(n.suffix) : n.suffix[i] # EditingMark

\* C6: a double-click on the sent node of message I fails before any
\* Delivered for I was handled, and once a Delivered for I was handled it
\* succeeds, sets the editing cursor to I and turns the delivered mark of the
\* node into the editing mark.
C6_DblClickAfterDelivered ==
    [][\A p \in Peers : \A r \in SentRefs(p) :
            LET n == Child(p, r) IN
            (DblClick(p, r) /\ C6_OwnPlain(p, n)) =>
                IF BagIn(n.id, acked[p])
                THEN /\ outcome' = Ok
                     /\ editing'[p] = n.id
                     /\ HasTrailing(n, DeliveredMark)
                     /\ views'[p][r[1]].children[r[2]] =
                            [n EXCEPT !.suffix = SubSeq(n.suffix, 1, Len(n.suffix) - 1) \o <<EditingMark>>]
                ELSE outcome'.name = "Error"]_vars

\* the nodes with message id `id` in the document of p
NodesOf(p, id) == {r \in Refs(views[p]) : Child(p, r).id = id}

\* C7: once the Edit sent last for message I (from an edit session on the
\* node of I) and every envelope sent for I before it were acknowledged by
\* Delivered and the local echo has run, the sender's document has one node
\* with id I: the edited text, the edit time and a delivered mark (as long as
\* no new edit session was begun on it).
C7_EditThenDelivered ==
    \A id \in 1..Len(committed) :
        LET c == committed[id] IN
        ( /\ c.event = "Edit" /\ c.marked
          /\ CopiesIn(id, acked[c.by]) = c.n
          /\ ~\E t \in BagToSet(tasks) : t.peer = c.by /\ t.msg.id = id
          /\ \A r \in NodesOf(c.by, id) : ~HasTrailing(Child(c.by, r), EditingMark) )
        =>
        /\ Cardinality(NodesOf(c.by, id)) = 1
        /\ \A r \in NodesOf(c.by, id) :
                Child(c.by, r) = [className |-> "sent", id |-> id, text |-> c.text,
                                  suffix |-> <<c.time, DeliveredMark>>]


\* the number of typing indicators among the children of a view
TypingCount(ch) == Cardinality({i \in 1..Len(ch) : ch[i].className = "typing"})

\* C8: after a Typing envelope is handled the view of its sender has exactly
\* one typing indicator, and when the last node of that view was a typing
\* indicator already the handler changes nothing (views, keys, cursors,
\* outgoing envelopes, pending continuations).
C8_TypingIdempotent ==
    [][\A p \in Peers : \A n \in Arrivals(p, "Typing") :
            RecvTyping(p, n) =>
                LET el  == FindView(views[p], n.msg.from)
                    el2 == FindView(views'[p], n.msg.from) IN
                /\ el2 # 0
                /\ TypingCount(views'[p][el2].children) = 1
                /\ (el # 0 /\ views[p][el].children[Len(views[p][el].children)].className = "typing") =>
                        /\ views' = views /\ aesKeys' = aesKeys
                        /\ editing' = editing /\ replying' = replying
                        /\ outbox' = outbox /\ tasks' = tasks]_vars

\* a second Typing was handled while the indicator of the first was showing
C8_Witness ==
    \E p \in Peers :
        /\ outcome.op = "recvTyping" /\ outcome.peer = p /\ outcome.name = "return"
        /\ \E i \in 1..Len(views[p]) : TypingCount(views[p][i].children) = 1

\* C9: a StopTyping envelope handled while the last node of the view of its
\* sender is not a typing indicator raises no error, leaves every view as it
\* was and sends nothing.
C9_StopTypingNoOp ==
    [][\A p \in Peers : \A n \in Arrivals(p, "StopTyping") :
            LET el == FindView(views[p], n.msg.from) IN
            ( /\ RecvStopTyping(p, n)
              /\ el # 0
              /\ views[p][el].children[Len(views[p][el].children)].className # "typing" ) =>
                /\ outcome'.name \notin {"TypeError", "OperationError", "Error"}
                /\ views' = views
                /\ outbox' = outbox /\ tasks' = tasks]_vars

\* a StopTyping was handled in a view that shows messages and no indicator
C9_Witness ==
    \E p \in Peers :
        /\ outcome.op = "recvStopTyping" /\ outcome.peer = p /\ outcome.name = "return"
        /\ \E i \in 1..Len(views[p]) :
                /\ Len(views[p][i].children) > 1
                /\ TypingCount(views[p][i].children) = 0


\* the continuations of the data handler (those of sendBar.onkeydown and of
\* the open callback of send are "enter", "echoEdit" and "echoPlain")
HandlerKinds == {"rsaGenerate", "rsaImport", "rsaEncrypt", "aesImport", "edit", "plain"}

\* p is between the first and the last step of handling an envelope from q
Handling(p, q) ==
    \E t \in BagToSet(tasks) : t.peer = p /\ t.kind \in HandlerKinds /\ t.msg.from = q

\* p starts handling the envelope n
Receives(p, n) ==
    \/ n.msg.event = "RSAKeyShare" /\ RecvRSAKeyShare(p, n)
    \/ n.msg.event = "AESKeyShare" /\ RecvAESKeyShare(p, n)
    \/ n.msg.event = "Typing" /\ RecvTyping(p, n)
    \/ n.msg.event = "StopTyping" /\ RecvStopTyping(p, n)
    \/ n.msg.event = "Delivered" /\ RecvDelivered(p, n)
    \/ n.msg.event \in {"Edit", "None"} /\ RecvEncrypted(p, n)

\* C11: no envelope from peer P starts being handled while the handling of
\* an earlier envelope from P is suspended at one of its awaits.
C11_HandlingNotInterleaved ==
    [][\A p \in Peers : \A n \in BagToSet(net) :
            (n.to = p /\ Receives(p, n)) => ~Handling(p, n.msg.from)]_vars


(***************************************************************************)
(* SpecSolo: one user, the one who starts the conversation, sends, edits,  *)
(* types and deletes; the other peer only answers.  Every kind of envelope *)
(* is transmitted.                                                         *)
(***************************************************************************)
SoloEnters == 2
SoloKeys == 2
SoloClicks == 1

Solo == CHOOSE p \in Peers : TRUE

SoloUser ==
    \/ \E q \in Others(Solo) : CreateChat(Solo, q)
    \/ \E i \in Inputs(Solo) : \E c \in Chars : KeyDownChar(Solo, i, c)
    \/ \E i \in Inputs(Solo) : KeyDownBackspace(Solo, i)
    \/ \E i \in Inputs(Solo) : KeyDownEnter(Solo, i)
    \/ \E r \in SentRefs(Solo) : DblClick(Solo, r)

NextSolo ==
    \/ SoloUser
    \/ Exchange \/ DoEchoEdit \/ DoEditDecrypted \/ DoRecvTyping \/ DoRecvStopTyping

InitSolo == Start(Budget(1, SoloEnters, SoloKeys, SoloClicks))

SpecSolo == InitSolo /\ [][NextSolo]_vars

\* the step ends the open callback of a send of p: the silent cases, the
\* Delivered echo, the echo of an Edit or of a plain message after its await,
\* or the exception that ends the callback before the await
OpenCompletes(p) ==
    \/ \E o \in Opens(p, {"RSAKeyShare", "AESKeyShare", "Typing", "StopTyping"}) : OpenSilent(p, o)
    \/ \E o \in Opens(p, {"Delivered"}) : OpenDelivered(p, o)
    \/ \E o \in Opens(p, {"Edit", "None"}) : OpenEcho(p, o) /\ aesKeys[p][o.to] = NoKey
    \/ \E t \in TasksOf(p, "echoEdit") : EchoEdit(p, t)
    \/ \E t \in TasksOf(p, "echoPlain") : EchoPlain(p, t)

\* C12: when the open callback of a send of any kind has ended, the editing
\* and the replying cursors of the sender are both unset.
C12_CursorsClearedAfterSend ==
    [][\A p \in Peers :
            OpenCompletes(p) => (editing'[p] = Undefined /\ replying'[p] = Undefined)]_vars


\* the envelopes waiting for their channel or transmitted and not yet handled
Envelopes == {o.msg : o \in BagToSet(outbox)} \cup {n.msg : n \in BagToSet(net)}

\* the envelope the step hands to send from p to q
Sends(p, q, msg) ==
    LET o == [peer |-> p, to |-> q, msg |-> msg] IN
    outbox' = outbox (+) SetToBag({o})

C13_BodyShape ==
    \A m \in Envelopes :
        /\ m.event \in {"None", "Edit"} => (m.body.t = "ct" /\ m.body.key # 0 /\ m.body.iv # 0)
        /\ m.event \in {"Typing", "StopTyping", "Delivered"} =>
                m.body = [t |-> "", iv |-> 0, key |-> 0, pub |-> "", data |-> <<>>]

\* Enter without a key hands nothing to send and starts no encryption; with a
\* key the encryption is started under the key held for the recipient
C13_EnterReadsKey ==
    \A p \in Peers : \A i \in Inputs(p) :
        KeyDownEnter(p, i) =>
            IF aesKeys[p][views[p][i].id] = NoKey
            THEN outbox' = outbox /\ tasks' = tasks
            ELSE \E t \in BagToSet(tasks') :
                    /\ tasks' = tasks (+) SetToBag({t})
                    /\ t.kind = "enter" /\ t.peer = p /\ t.to = views[p][i].id
                    /\ t.key = aesKeys[p][t.to] /\ t.text = views[p][i].sendBar

\* the envelope sent after the encryption carries the text encrypted under
\* the key read at Enter
C13_EnterSendsCiphertext ==
    \A p \in Peers : \A t \in TasksOf(p, "enter") :
        EnterEncrypted(p, t) =>
            \E m \in {o.msg : o \in BagToSet(outbox')} :
                /\ Sends(p, t.to, m)
                /\ m.event \in {"None", "Edit"}
                /\ m.body = [t |-> "ct", iv |-> t.key.iv, key |-> t.key.key, pub |-> "", data |-> t.text]

\* C13: the body of every plain message and Edit handed to send or in flight
\* is a ciphertext, made under the key the sender held for the recipient when
\* Enter was pressed; a peer without a key for the recipient sends none; the
\* bodies of Typing, StopTyping and Delivered are empty.
C13_BodiesAreCiphertext ==
    /\ []C13_BodyShape
    /\ [][C13_EnterReadsKey /\ C13_EnterSendsCiphertext]_vars

\* an Edit with a text is in flight next to empty-bodied control envelopes
C13_Witness ==
    /\ \E n \in BagToSet(net) :
            /\ n.msg.event = "Edit"
            /\ n.msg.body.t = "ct" /\ n.msg.body.data = <<"a">>
            /\ n.msg.body.key = aesKeys[n.msg.from][n.to].key
    /\ \E m \in Envelopes : m.event \in {"Typing", "StopTyping", "Delivered"}


\* the events whose envelopes are not individually addressable
Unaddressed == {"Typing", "StopTyping", "RSAKeyShare", "AESKeyShare"}

\* ids known to have been transmitted: those of the envelopes in flight, of
\* the envelopes being handled and of the nodes built from received ones
TransmittedIds ==
    {n.msg.id : n \in BagToSet(net)}
        \cup {t.msg.id : t \in {u \in BagToSet(tasks) : u.kind \in HandlerKinds}}
        \cup UNION {{Child(p, r).id : r \in {x \in Refs(views[p]) : Child(p, x).className = "received"}} : p \in Peers}

\* every id that appears anywhere: in an envelope, a continuation or a node
UsedIds ==
    {m.id : m \in Envelopes} \cup {t.msg.id : t \in BagToSet(tasks)}
        \cup UNION {{Child(p, r).id : r \in Refs(views[p])} : p \in Peers}
        \cup (1..Len(committed))

\* the open callback of the send o transmits its envelope
Transmits(o) ==
    /\ outbox' = outbox (-) SetToBag({o})
    /\ net' = net (+) SetToBag({[to |-> o.to, msg |-> o.msg]})

\* C14 as stated: a transmitted Typing, StopTyping, RSAKeyShare or
\* AESKeyShare has the empty id, and every other transmitted envelope has an
\* id that no envelope transmitted earlier had.
C14_Original ==
    [][\A o \in BagToSet(outbox) :
            Transmits(o) =>
                IF o.msg.event \in Unaddressed THEN o.msg.id = EmptyId
                ELSE o.msg.id # EmptyId /\ o.msg.id \notin TransmittedIds]_vars

C14_Shape ==
    \A m \in Envelopes :
        IF m.event \in Unaddressed THEN m.id = EmptyId ELSE m.id \in 1..Len(committed)

C14_EnterIds ==
    \A p \in Peers : \A t \in TasksOf(p, "enter") :
        EnterEncrypted(p, t) =>
            \E m \in {o.msg : o \in BagToSet(outbox')} :
                /\ Sends(p, t.to, m)
                /\ IF editing[p] = Undefined
                   THEN m.event = "None" /\ m.id # EmptyId /\ m.id \notin UsedIds
                   ELSE m.event = "Edit" /\ m.id = editing[p]

C14_ReplyIds ==
    \A p \in Peers : \A t \in TasksOf(p, "plain") \cup TasksOf(p, "edit") :
        ((PlainDecrypted(p, t) \/ EditDecrypted(p, t)) /\ outbox' # outbox) =>
            \E m \in {o.msg : o \in BagToSet(outbox')} :
                Sends(p, t.msg.from, m) /\ m.event = "Delivered" /\ m.id = t.msg.id

\* C14 (amended): Typing, StopTyping, RSAKeyShare and AESKeyShare envelopes
\* have the empty id; a new plain message has an id used nowhere before; an
\* Edit has the id of the editing cursor and a Delivered the id of the
\* envelope it answers.
C14_Ids ==
    /\ []C14_Shape
    /\ [][C14_EnterIds /\ C14_ReplyIds]_vars

\* the Delivered for an Edit is in flight: the third envelope with that id
C14_Witness ==
    \E n \in BagToSet(net) :
        /\ n.msg.event = "Delivered" /\ n.msg.id # EmptyId
        /\ committed[n.msg.id].event = "Edit" /\ committed[n.msg.id].n = 2
        /\ \E r \in Refs(views[n.msg.from]) :
                /\ Child(n.msg.from, r).className = "received"
                /\ Child(n.msg.from, r).id = n.msg.id
                /\ Child(n.msg.from, r).suffix = <<EditTime>>


\* the positions in the view el of p of the nodes with id `id` that do not
\* end with the delivered mark
Unmarked(p, el, id) ==
    {i \in 1..Len(views[p][el].children) :
        /\ views[p][el].children[i].id = id
        /\ ~HasTrailing(views[p][el].children[i], DeliveredMark)}

\* C15: a Delivered envelope with id I, when the view of its sender has a
\* node with id I without a delivered mark, appends the delivered mark to the
\* last such node and to no other; every other node is unchanged and nothing
\* is sent.
C15_DeliveredMarksLast ==
    [][\A p \in Peers : \A n \in Arrivals(p, "Delivered") :
            LET el == FindView(views[p], n.msg.from) IN
            (RecvDelivered(p, n) /\ el # 0 /\ Unmarked(p, el, n.msg.id) # {}) =>
                LET i == CHOOSE i \in Unmarked(p, el, n.msg.id) :
                            \A j \in Unmarked(p, el, n.msg.id) : j <= i
                    c == views[p][el].children[i] IN
                /\ views' = [views EXCEPT ![p][el].children[i] =
                                [c EXCEPT !.suffix = c.suffix \o <<DeliveredMark>>]]
                /\ outbox' = outbox
                /\ outcome' = Ok]_vars

\* of two nodes with one id the later one was marked, the earlier one not
C15_Witness ==
    \E p \in Peers : \E v \in 1..Len(views[p]) :
        \E i, j \in 1..Len(views[p][v].children) :
            LET ch == views[p][v].children IN
            /\ i < j /\ ch[i].id = ch[j].id
            /\ HasTrailing(ch[j], DeliveredMark)
            /\ ~HasTrailing(ch[i], DeliveredMark)
            /\ BagIn(ch[j].id, acked[p])


\* C16: every conversation view has at most one typing indicator, and an
\* indicator is the last node of its view.
C16_OneTypingLast ==
    \A p \in Peers : \A v \in 1..Len(views[p]) :
        \A i \in 1..Len(views[p][v].children) :
            views[p][v].children[i].className = "typing" => i = Len(views[p][v].children)

\* a sent node was put in front of the indicator of a view
C16_Witness ==
    \E p \in Peers : \E v \in 1..Len(views[p]) :
        LET ch == views[p][v].children IN
        /\ Len(ch) >= 3
        /\ ch[Len(ch)].className = "typing"
        /\ ch[Len(ch) - 1].className = "sent"
        /\ ch[Len(ch) - 1].text = <<"a">>


\* the step assigns aesKeys[p][q] while p handles a key-share envelope of q
KeyShareWrites(p, q) ==
    \E t \in TasksOf(p, "rsaGenerate") \cup TasksOf(p, "aesImport") :
        /\ t.msg.event \in {"RSAKeyShare", "AESKeyShare"} /\ t.msg.from = q
        /\ RsaGenerated(p, t) \/ AesImported(p, t)

\* C17: the key table changes only in a step of handling an RSAKeyShare or
\* AESKeyShare envelope, and then only in the entry for the sender of the
\* envelope; an entry that is present is never removed.
C17_KeyTableFrame ==
    [][/\ \A p, q \in Peers :
            aesKeys'[p][q] # aesKeys[p][q] => (KeyShareWrites(p, q) /\ aesKeys'[p][q] # NoKey)
       /\ \A p, q \in Peers :
            aesKeys[p][q] # NoKey => aesKeys'[p][q] # NoKey]_vars

\* a second exchange, begun after the first was over, has replaced the key
\* on both sides
C17_Witness ==
    \E p \in Peers : \E q \in Peers \ {p} :
        /\ ~overlap /\ budget.chats = 0
        /\ aesKeys[p][q] = [iv |-> 2, key |-> 2]
        /\ aesKeys[q][p] = [iv |-> 2, key |-> 2]


\* an edit session begun by a double-click on a delivered node is in effect
EditSession(p) ==
    /\ editing[p] # Undefined
    /\ \E r \in NodesOf(p, editing[p]) : HasTrailing(Child(p, r), EditingMark)

C18_EnterCommits ==
    \A p \in Peers : \A t \in TasksOf(p, "enter") :
        EnterEncrypted(p, t) =>
            /\ \E m \in {o.msg : o \in BagToSet(outbox')} :
                    /\ Sends(p, t.to, m)
                    /\ m.prev = replying[p]
                    /\ IF editing[p] # Undefined
                       THEN m.event = "Edit" /\ m.id = editing[p]
                       ELSE m.event = "None" /\ m.id \notin UsedIds
            /\ views'[p][t.el].sendBar = <<>>
            /\ replying'[p] = Undefined

C18_SessionKept ==
    \A p \in Peers :
        (EditSession(p) /\ editing'[p] # editing[p]) =>
            \/ \E r \in SentRefs(p) : DblClick(p, r)
            \/ \E t \in TasksOf(p, "echoEdit") : EchoEdit(p, t)

\* C18: Enter sends an Edit with the id of the editing cursor when the cursor
\* is set and a new message with a fresh id otherwise, with prev equal to the
\* replying cursor, and leaves the input empty and replying unset; and an
\* edit session in effect ends only by the user's own actions (another
\* double-click, or the Enter that commits it), never by an inbound envelope
\* or by the send of a typing indicator.
C18_EditSessionUntilEnter ==
    [][C18_EnterCommits /\ C18_SessionKept]_vars


\* C19: whenever no key-share envelope between two peers is waiting, in
\* flight or being handled and both hold a key for each other, the two keys
\* are equal, however the exchanges were started.
C19_KeysAgreeAlways ==
    \A a \in Peers : \A b \in Peers \ {a} :
        ( /\ ~KeyShareUnderWay
          /\ aesKeys[a][b] # NoKey /\ aesKeys[b][a] # NoKey )
        => aesKeys[a][b] = aesKeys[b][a]

\* the nodes of the document of p that end with the editing mark
EditMarks(p) == {r \in Refs(views[p]) : HasTrailing(Child(p, r), EditingMark)}

\* C20: at most one node of the document of a peer carries the editing mark,
\* and a node carries it only while the editing cursor is the id of the node.
C20_MarkAndCursorAgree ==
    \A p \in Peers :
        /\ Cardinality(EditMarks(p)) <= 1
        /\ \A r \in EditMarks(p) : editing[p] = Child(p, r).id


\* C21: no conversation view has two nodes with the same non-empty message
\* id; acknowledging a received message with Delivered adds no node.
C21_OneNodePerId ==
    \A p \in Peers : \A v \in 1..Len(views[p]) :
        \A i, j \in 1..Len(views[p][v].children) :
            (views[p][v].children[i].id # EmptyId
                /\ views[p][v].children[i].id = views[p][v].children[j].id) => i = j


(***************************************************************************)
(* SpecSoloFair: SpecSolo with the event loop and the network running:     *)
(* every channel opens, every transmitted envelope is handed to the data   *)
(* handler and every awaited promise resolves.  The user is not obliged to *)
(* do anything.                                                            *)
(***************************************************************************)
System == Exchange \/ DoEchoEdit \/ DoEditDecrypted \/ DoRecvTyping \/ DoRecvStopTyping

SpecSoloFair == SpecSolo /\ WF_vars(System)

\* nothing waits for a channel, is in flight or is suspended at an await
Quiet == BagToSet(outbox) = {} /\ BagToSet(net) = {} /\ BagToSet(tasks) = {}

\* what each step of the data handler hands to send
C22_Handlers ==
    \A p \in Peers :
        /\ \A n \in BagToSet(net) : (n.to = p /\ Receives(p, n)) => outbox' = outbox
        /\ \A t \in TasksOf(p, "aesImport") : AesImported(p, t) => outbox' = outbox
        /\ \A t \in TasksOf(p, "rsaGenerate") : RsaGenerated(p, t) => outbox' = outbox
        /\ \A t \in TasksOf(p, "rsaImport") : RsaImported(p, t) => outbox' = outbox
        /\ \A t \in TasksOf(p, "rsaEncrypt") :
                RsaEncrypted(p, t) =>
                    \E m \in {o.msg : o \in BagToSet(outbox')} :
                        Sends(p, t.msg.from, m) /\ m.event = "AESKeyShare"
        /\ \A t \in TasksOf(p, "plain") \cup TasksOf(p, "edit") :
                (PlainDecrypted(p, t) \/ EditDecrypted(p, t)) =>
                    \/ outbox' = outbox
                    \/ \E m \in {o.msg : o \in BagToSet(outbox')} :
                            Sends(p, t.msg.from, m) /\ m.event = "Delivered"

\* the open callback of a send hands nothing to send
C22_Opens ==
    \A p \in Peers : \A o \in BagToSet(outbox) :
        (o.peer = p /\ (OpenSilent(p, o) \/ OpenDelivered(p, o) \/ OpenEcho(p, o))) =>
            outbox' = outbox (-) SetToBag({o})

\* C22: handling a Typing, StopTyping, Delivered or AESKeyShare envelope
\* sends nothing, handling a plain message or an Edit sends at most one
\* Delivered and handling an RSAKeyShare at most one AESKeyShare; and once
\* the users stop acting the peers reach, and stay in, a state with no
\* envelope waiting, in flight or being handled.
C22_Quiescence ==
    /\ [][C22_Handlers /\ C22_Opens]_vars
    /\ <>[]Quiet

\* all user actions are used up, both messages were sent and nothing is
\* under way
C22_Witness ==
    /\ Quiet
    /\ budget = Budget(0, 0, 0, 0)
    /\ Len(committed) >= 1
    /\ \E p \in Peers : BagToSet(acked[p]) # {}


\* p sent the plain message `id` and has handled a Delivered envelope for it
Acknowledged(p, id) ==
    /\ id <= Len(committed)
    /\ committed[id].by = p /\ committed[id].event = "None"
    /\ BagIn(id, acked[p])

\* the sent node of message `id` in the document of p ends with the
\* delivered mark
MarkedDelivered(p, id) ==
    \E r \in NodesOf(p, id) :
        Child(p, r).className = "sent" /\ HasTrailing(Child(p, r), DeliveredMark)

\* C23: once a peer has sent the plain message I and handled the recipient's
\* Delivered for I, its sent node for I eventually carries the delivered
\* mark, whether the Delivered arrives before or after the local echo of the
\* send has inserted the node.
C23_AcknowledgedIsMarked ==
    \A p \in Peers : \A id \in 1..SoloEnters :
        Acknowledged(p, id) ~> MarkedDelivered(p, id)

=============================================================================
